---- MODULE Spec2Model ----
(***************************************************************************)
(* Streetlight processing engine: src/app/backend.py (sum convention,      *)
(* lock-guarded, called from the HTTP manual path and from the MQTT        *)
(* callback thread) and src/gcp/vm_subscriber.py (mean convention,         *)
(* single-threaded MQTT callback).                                         *)
(*                                                                         *)
(* Units.  Python floats are modelled exactly by integers:                  *)
(*   power              tenths of a watt      (4.5 W  is 45)                *)
(*   traffic_intensity  tenths of a percent   (16.7 % is 167), i.e. the     *)
(*                      value after round(x, 1)                             *)
(***************************************************************************)
EXTENDS Integers, Sequences, FiniteSets, TLC

WINDOW_SIZE == 10
MOTION_HISTORY_SIZE == 60

\* ---------------------------------------------------------------- bounds
MaxCalls == 2

\* The two callers of process_data: the Flask handler and the paho loop thread.
Threads == {"http", "mqtt"}
NoThread == "none"
\* Device ids: the fixed id of the manual path, and one id taken from a topic.
Devices == {"http_manual", "lamp1"}

\* Inputs of the concurrent specification: int() and float() accept any
\* number, so out-of-range values (negative light, motion -1) are inputs like the others.
LdrValues == {-1, 0, 6}
MotionValues == {-1, 1}
PowerValues == {0, 11}

\* The lamp of the single-device specifications.
Lamp == "lamp1"

\* Digital light sensor, power 0 W and 4.5 W.
MaxLightCalls == 12
LightLdrValues == {0, 1}
LightPowerValues == {0, 45}

\* Analog light sensor (0 = bright, 900 = dark); power 0, 0.1, 1.0, 1.1 W.
MaxBrokerCalls == 62
BlockLen == 20
BrokerLdrValues == {0, 900}
BrokerMotionValues == {0, 1}
BrokerPowerValues == {0, 1, 10, 11}

\* The broker-side subscriber alone: light samples whose means fall on, between
\* and beyond 600 and 800; power on both sides of every tolerance band, and
\* one negative value (float() accepts it).
MaxVmCalls == 3
VmLdrValues == {0, 600, 900}
VmMotionValues == {0, 1}
VmPowerValues == {-20, 0, 4, 5, 10, 11, 25, 26, 39, 40, 60, 61}

\* Both threads with a failing database or socket, under fair scheduling.
MaxFairCalls == 2
FairLdrValues == {0, 6}
FairMotionValues == {1}
FairPowerValues == {11}

VARIABLES
    heap,           \* the state dicts ever allocated, in allocation order
    device_states,  \* dict: device id -> reference (index into heap)
    state_lock,     \* holder of threading.Lock(), or NoThread
    pc,             \* position of each thread inside process_sensor_data
    frame,          \* arguments and locals of each thread's current call
    result,         \* the dict returned by each thread's last call
    ncalls,         \* number of calls started
    serial,         \* history variable: each device's state under serial execution
    expected,       \* history variable: the result of the call in the serial order
    log,            \* history variable: the samples of each device, in lock order
    crossed,        \* history variable: last threshold the light sum went beyond
    states,         \* vm_subscriber.py: dict device id -> DeviceState
    vm_inbox,       \* vm_subscriber.py: messages delivered and not yet handled
    vm_doc,         \* vm_subscriber.py: the document of the last message handled
    vm_log,         \* history variable: the samples delivered to the subscriber
    feed,           \* the reading the broker published last
    io,             \* process_data after the engine call: insert_one, emit, return
    since_flip      \* history variable: calls of a device since is_night last changed

vmvars == <<states, vm_inbox, vm_doc, vm_log, feed>>

vars == <<heap, device_states, state_lock, pc, frame, result, ncalls,
          serial, expected, log, crossed, states, vm_inbox, vm_doc, vm_log, feed,
          io, since_flip>>

\* ------------------------------------------------------------ arithmetic
RECURSIVE SumTo(_, _)
\* sum(f[0] .. f[n-1]) of a list held as a function on 0..len-1
SumTo(f, n) == IF n = 0 THEN 0 ELSE f[n - 1] + SumTo(f, n - 1)

RECURSIVE SumSeq(_)
SumSeq(s) == IF s = <<>> THEN 0 ELSE Head(s) + SumSeq(Tail(s))

\* Last n elements of a sequence (all of it when shorter).
LastN(s, n) == IF Len(s) <= n THEN s ELSE SubSeq(s, Len(s) - n + 1, Len(s))

\* round(num / den, 0) as Python rounds: to nearest, ties to even (den > 0).
RoundHalfEven(num, den) ==
    LET q == num \div den
        r == num % den
    IN  IF 2 * r < den THEN q
        ELSE IF 2 * r > den THEN q + 1
        ELSE IF q % 2 = 0 THEN q ELSE q + 1

\* ----------------------------------------------------- backend.py: state
\* Variant: a dict that starts with one light vote already counted.
NewStateStale ==
    [ldr_readings   |-> [i \in 0..(WINDOW_SIZE - 1) |-> IF i = WINDOW_SIZE - 1 THEN 1 ELSE 0],
     ldr_index      |-> 0,
     ldr_sum        |-> 1,
     is_night       |-> FALSE,
     motion_history |-> [i \in 0..(MOTION_HISTORY_SIZE - 1) |-> 0],
     motion_index   |-> 0,
     motion_sum     |-> 0]

\* get_device_state's initial dict.
NewState ==
    [ldr_readings   |-> [i \in 0..(WINDOW_SIZE - 1) |-> 0],
     ldr_index      |-> 0,
     ldr_sum        |-> 0,
     is_night       |-> FALSE,
     motion_history |-> [i \in 0..(MOTION_HISTORY_SIZE - 1) |-> 0],
     motion_index   |-> 0,
     motion_sum     |-> 0]

NoFrame ==
    [device_id |-> "", state |-> 0, raw_ldr |-> 0, motion |-> 0, power |-> 0,
     smooth_ldr |-> 0, is_night |-> FALSE, traffic_intensity |-> 0,
     target_brightness |-> 0, anomaly |-> 0]

NoResult ==
    [valid |-> FALSE, smooth_ldr |-> 0, is_night |-> FALSE, brightness |-> 0,
     traffic_intensity |-> 0, anomaly |-> 0]

NoLog == [n |-> 0, ldr |-> <<>>, motion |-> <<>>]

\* process_data before line 149: nothing inserted, nothing emitted, not returned.
NoIo == [inserted |-> FALSE, emitted |-> FALSE, failed |-> FALSE, ret |-> "pending"]

\* Variant: the exception handler returns the document all the same.
ExceptReturnsDoc(t) == [io[t] EXCEPT !.failed = TRUE, !.ret = "doc"]

\* Lines 161-163: except Exception: print, return None.
ExceptReturn(t) == [io[t] EXCEPT !.failed = TRUE, !.ret = "None"]

\* Variant: leaving a lock scope does not release the lock.
StillHeld(t) == t

\* The lock after a with state_lock block is left: released.
Released(t) == NoThread

\* Variant: a lock that never blocks (the with blocks left out).
LockNeverBlocks == TRUE

\* with state_lock: the lock can be taken when nobody holds it.
LockAvailable == state_lock = NoThread

\* Variant: every call works on the dict allocated first (one shared state).
StateRefShared(t) == 1

\* `state`, the dict the call works on: the reference get_device_state returned.
StateRef(t) == frame[t].state

\* Variant: line 59 left out, nothing is subtracted for the evicted slot.
EvictedLdrNone(st) == 0

\* The slot evicted by line 59 / line 76.
EvictedLdr(st) == st.ldr_readings[st.ldr_index]
\* Variant: always the first slot of the motion ring.
EvictedMotionFirst(st) == st.motion_history[0]

EvictedMotion(st) == st.motion_history[st.motion_index]

\* Variant: a single midpoint threshold, no dead band.
LatchMidpoint(smooth_ldr, prior) == smooth_ldr >= (WINDOW_SIZE \div 2)

\* Variant: a plain else instead of the elif, the dead band reads as day.
LatchElseDay(smooth_ldr, prior) == smooth_ldr > (WINDOW_SIZE \div 2)

\* Lines 67-73: the latch from the post-update light sum.
LatchUpdate(smooth_ldr, prior) ==
    IF smooth_ldr > (WINDOW_SIZE \div 2) THEN TRUE
    ELSE IF smooth_ldr < (WINDOW_SIZE \div 2) THEN FALSE
    ELSE prior

\* Variant: truncation to one decimal instead of round().
TrafficIntensityTruncated(motion_sum) ==
    (1000 * motion_sum) \div MOTION_HISTORY_SIZE

\* Lines 81 and 101: round((motion_sum / MOTION_HISTORY_SIZE) * 100.0, 1), in tenths.
TrafficIntensity(motion_sum) ==
    RoundHalfEven(1000 * motion_sum, MOTION_HISTORY_SIZE)

\* Variant: the two night levels exchanged.
TargetBrightnessSwapped(is_night, motion) ==
    IF is_night THEN (IF motion > 0 THEN 30 ELSE 100) ELSE 0

\* Lines 84-86.
TargetBrightness(is_night, motion) ==
    IF is_night THEN (IF motion > 0 THEN 100 ELSE 30) ELSE 0

\* Variant: inclusive thresholds (power <= 0.1, power >= 1.0).
AnomalyInclusive(target_brightness, power) ==
    LET a1 == IF target_brightness > 10 /\ power <= 1 THEN 1 ELSE 0
    IN  IF target_brightness = 0 /\ power >= 10 THEN 2 ELSE a1

\* Variant: the second check also takes the dimmed level for off.
AnomalyDimAsOff(target_brightness, power) ==
    LET a1 == IF target_brightness > 10 /\ power < 1 THEN 1 ELSE 0
    IN  IF target_brightness <= 30 /\ power > 10 THEN 2 ELSE a1

\* Lines 89-95: two independent ifs, the second overriding (power in tenths:
\* power < 0.1 is power < 1, power > 1.0 is power > 10).
Anomaly(target_brightness, power) ==
    LET a1 == IF target_brightness > 10 /\ power < 1 THEN 1 ELSE 0
    IN  IF target_brightness = 0 /\ power > 10 THEN 2 ELSE a1

\* ------------------------------------------- serial reference (history)
\* One whole call of process_sensor_data applied to a state in one step.
SerialState(st, raw_ldr, motion) ==
    LET sum == st.ldr_sum - st.ldr_readings[st.ldr_index] + raw_ldr
        msum == st.motion_sum - st.motion_history[st.motion_index] + motion
    IN  [ldr_readings   |-> [st.ldr_readings EXCEPT ![st.ldr_index] = raw_ldr],
         ldr_index      |-> (st.ldr_index + 1) % WINDOW_SIZE,
         ldr_sum        |-> sum,
         is_night       |-> LatchUpdate(sum, st.is_night),
         motion_history |-> [st.motion_history EXCEPT ![st.motion_index] = motion],
         motion_index   |-> (st.motion_index + 1) % MOTION_HISTORY_SIZE,
         motion_sum     |-> msum]

SerialResult(st, raw_ldr, motion, power) ==
    LET nx == SerialState(st, raw_ldr, motion)
        b  == TargetBrightness(nx.is_night, motion)
    IN  [valid |-> TRUE, smooth_ldr |-> nx.ldr_sum, is_night |-> nx.is_night,
         brightness |-> b, traffic_intensity |-> TrafficIntensity(nx.motion_sum),
         anomaly |-> Anomaly(b, power)]

\* ------------------------------------------------- vm_subscriber.py: state
\* DeviceState.__init__ (window_size and history_size are fields set there).
window_size == 10
history_size == 60

NewDeviceState == [ldr_window |-> << >>, is_night |-> FALSE, motion_history |-> << >>]

NoDoc ==
    [valid |-> FALSE, device_id |-> "", motion |-> 0, power |-> 0, ldr_smooth |-> 0,
     is_night |-> FALSE, brightness |-> 0, traffic_intensity |-> 0, anomaly |-> 0]

NoReading == [ldr |-> 0, motion |-> 0]

\* int(x / y) for y > 0: Python's int() truncates towards zero.
TruncDiv(x, y) == IF x >= 0 THEN x \div y ELSE -((-x) \div y)

\* list.append(x) followed by pop(0) when the list is longer than size.
AppendBounded(w, x, size) ==
    LET a == Append(w, x) IN IF Len(a) > size THEN Tail(a) ELSE a

\* Variant: a mean of exactly 800 already enters night.
VmLatchInclusive(w, prior) ==
    IF SumSeq(w) >= 800 * Len(w) THEN TRUE
    ELSE IF SumSeq(w) < 600 * Len(w) THEN FALSE
    ELSE prior

\* Lines 41-44 on smooth_ldr = sum(w) / len(w): the mean is > 800 exactly when
\* the sum is > 800 * len, and < 600 exactly when the sum is < 600 * len.
VmLatchUpdate(w, prior) ==
    IF SumSeq(w) > 800 * Len(w) THEN TRUE
    ELSE IF SumSeq(w) < 600 * Len(w) THEN FALSE
    ELSE prior

\* DeviceState.process, lines 33-49: the state after one reading.
DeviceStateProcess(st, raw_ldr, motion) ==
    LET w == AppendBounded(st.ldr_window, raw_ldr, window_size)
    IN  [ldr_window     |-> w,
         is_night       |-> VmLatchUpdate(w, st.is_night),
         motion_history |-> AppendBounded(st.motion_history, motion, history_size)]

\* Lines 53 and 113: round((sum(h) / len(h)) * 100, 1), in tenths of a percent.
VmIntensity(h) == RoundHalfEven(1000 * SumSeq(h), Len(h))

\* Lines 94-97.
VmTargetBrightness(is_night, motion) ==
    IF is_night THEN (IF motion = 1 THEN 100 ELSE 30) ELSE 0

\* Lines 100-101: expected_power = brightness / 100.0 * 5.0 (tenths: brightness
\* \div 2, exact for 0, 30, 100); anomaly when |power - expected| > 1.0.
VmAnomaly(target_brightness, power) ==
    LET e == target_brightness \div 2
        diff == IF power >= e THEN power - e ELSE e - power
    IN  IF diff > 10 THEN 1 ELSE 0

\* ------------------------------------------------------------------ Init
Init ==
    /\ heap = <<>>
    /\ device_states = << >>
    /\ state_lock = NoThread
    /\ pc = [t \in Threads |-> "idle"]
    /\ frame = [t \in Threads |-> NoFrame]
    /\ result = [t \in Threads |-> NoResult]
    /\ ncalls = 0
    /\ serial = [d \in Devices |-> NewState]
    /\ expected = [t \in Threads |-> NoResult]
    /\ log = [d \in Devices |-> NoLog]
    /\ crossed = [d \in Devices |-> "none"]
    /\ states = << >>
    /\ vm_inbox = << >>
    /\ vm_doc = NoDoc
    /\ vm_log = [d \in Devices |-> NoLog]
    /\ feed = NoReading
    /\ io = [t \in Threads |-> NoIo]
    /\ since_flip = [d \in Devices |-> 2]

\* --------------------------------------------------------------- actions
\* process_data -> process_sensor_data(device_id, raw_ldr, motion, power): entry.
Invoke(t, d, l, m, p) ==
    /\ pc[t] = "idle"
    /\ pc' = [pc EXCEPT ![t] = "gds_lock"]
    /\ frame' = [frame EXCEPT ![t] =
                    [NoFrame EXCEPT !.device_id = d, !.raw_ldr = l,
                                    !.motion = m, !.power = p]]
    /\ result' = [result EXCEPT ![t] = NoResult]
    /\ expected' = [expected EXCEPT ![t] = NoResult]
    /\ ncalls' = ncalls + 1
    /\ io' = [io EXCEPT ![t] = NoIo]
    /\ UNCHANGED <<heap, device_states, state_lock, serial, log, crossed, since_flip>>

\* manual_data: the HTTP path always uses the id "http_manual" (line 214).
ManualData(l, m, p) ==
    Invoke("http", "http_manual", l, m, p) /\ UNCHANGED vmvars

\* on_mqtt_message: the id is the third part of the topic (lines 173-182).
OnMqttMessage(d, l, m, p) ==
    Invoke("mqtt", d, l, m, p) /\ UNCHANGED vmvars

\* get_device_state, line 37: with state_lock.
GdsAcquire(t) ==
    /\ pc[t] = "gds_lock"
    /\ LockAvailable
    /\ state_lock' = t
    /\ pc' = [pc EXCEPT ![t] = "gds_check"]
    /\ UNCHANGED <<heap, device_states, frame, result, ncalls,
                   serial, expected, log, crossed>>
    /\ UNCHANGED <<vmvars, io, since_flip>>

\* get_device_state, line 38: if device_id not in device_states.
GdsCheck(t) ==
    /\ pc[t] = "gds_check"
    /\ pc' = [pc EXCEPT ![t] =
                 IF frame[t].device_id \notin DOMAIN device_states
                 THEN "gds_create" ELSE "gds_return"]
    /\ UNCHANGED <<heap, device_states, state_lock, frame, result, ncalls,
                   serial, expected, log, crossed>>
    /\ UNCHANGED <<vmvars, io, since_flip>>

\* get_device_state, lines 39-47: device_states[device_id] = a new dict.
GdsCreate(t) ==
    /\ pc[t] = "gds_create"
    /\ LET d == frame[t].device_id
       IN  /\ heap' = Append(heap, NewState)
           /\ device_states' = [x \in DOMAIN device_states \cup {d} |->
                                   IF x = d THEN Len(heap) + 1 ELSE device_states[x]]
    /\ pc' = [pc EXCEPT ![t] = "gds_return"]
    /\ UNCHANGED <<state_lock, frame, result, ncalls, serial, expected, log, crossed>>
    /\ UNCHANGED <<vmvars, io, since_flip>>

\* get_device_state, line 48: return the dict; the with block releases the lock.
GdsReturn(t) ==
    /\ pc[t] = "gds_return"
    /\ frame' = [frame EXCEPT ![t].state = device_states[frame[t].device_id]]
    /\ state_lock' = Released(t)
    /\ pc' = [pc EXCEPT ![t] = "lock"]
    /\ UNCHANGED <<heap, device_states, result, ncalls, serial, expected, log, crossed>>
    /\ UNCHANGED <<vmvars, io, since_flip>>

\* process_sensor_data, line 57: with state_lock.  The history variables
\* record the call at this point: the order of the calls is the lock order.
Acquire(t) ==
    /\ pc[t] = "lock"
    /\ LockAvailable
    /\ state_lock' = t
    /\ pc' = [pc EXCEPT ![t] = "l59"]
    /\ LET f == frame[t]
           d == f.device_id
       IN  /\ serial' = [serial EXCEPT ![d] = SerialState(@, f.raw_ldr, f.motion)]
           /\ expected' = [expected EXCEPT ![t] =
                              SerialResult(serial[d], f.raw_ldr, f.motion, f.power)]
           /\ log' = [log EXCEPT ![d] =
                         [n      |-> @.n + 1,
                          ldr    |-> LastN(Append(@.ldr, f.raw_ldr), WINDOW_SIZE),
                          motion |-> LastN(Append(@.motion, f.motion),
                                           MOTION_HISTORY_SIZE)]]
    /\ UNCHANGED <<heap, device_states, frame, result, ncalls, crossed>>
    /\ UNCHANGED <<vmvars, io, since_flip>>

\* Line 59: state['ldr_sum'] -= state['ldr_readings'][state['ldr_index']]
L59(t) ==
    /\ pc[t] = "l59"
    /\ LET r == StateRef(t)
       IN  heap' = [heap EXCEPT ![r].ldr_sum = @ - EvictedLdr(heap[r])]
    /\ pc' = [pc EXCEPT ![t] = "l60"]
    /\ UNCHANGED <<device_states, state_lock, frame, result, ncalls,
                   serial, expected, log, crossed>>
    /\ UNCHANGED <<vmvars, io, since_flip>>

\* Line 60: state['ldr_readings'][state['ldr_index']] = raw_ldr
L60(t) ==
    /\ pc[t] = "l60"
    /\ LET r == StateRef(t)
       IN  heap' = [heap EXCEPT ![r].ldr_readings[heap[r].ldr_index] = frame[t].raw_ldr]
    /\ pc' = [pc EXCEPT ![t] = "l61"]
    /\ UNCHANGED <<device_states, state_lock, frame, result, ncalls,
                   serial, expected, log, crossed>>
    /\ UNCHANGED <<vmvars, io, since_flip>>

\* Line 61: state['ldr_sum'] += raw_ldr
L61(t) ==
    /\ pc[t] = "l61"
    /\ LET r == StateRef(t)
       IN  heap' = [heap EXCEPT ![r].ldr_sum = @ + frame[t].raw_ldr]
    /\ pc' = [pc EXCEPT ![t] = "l62"]
    /\ UNCHANGED <<device_states, state_lock, frame, result, ncalls,
                   serial, expected, log, crossed>>
    /\ UNCHANGED <<vmvars, io, since_flip>>

\* Lines 62-63: advance the ring index; smooth_ldr = state['ldr_sum']
L62(t) ==
    /\ pc[t] = "l62"
    /\ LET r == StateRef(t)
       IN  /\ heap' = [heap EXCEPT ![r].ldr_index = (@ + 1) % WINDOW_SIZE]
           /\ frame' = [frame EXCEPT ![t].smooth_ldr = heap[r].ldr_sum]
    /\ pc' = [pc EXCEPT ![t] = "latch"]
    /\ UNCHANGED <<device_states, state_lock, result, ncalls,
                   serial, expected, log, crossed>>
    /\ UNCHANGED <<vmvars, io, since_flip>>

\* Lines 67-73: the night latch; is_night = state['is_night']
Latch(t) ==
    /\ pc[t] = "latch"
    /\ LET r == StateRef(t)
           s == frame[t].smooth_ldr
           n == LatchUpdate(s, heap[r].is_night)
           d == frame[t].device_id
       IN  /\ heap' = [heap EXCEPT ![r].is_night = n]
           /\ frame' = [frame EXCEPT ![t].is_night = n]
           /\ crossed' = [crossed EXCEPT ![d] =
                             IF s > WINDOW_SIZE \div 2 THEN "high"
                             ELSE IF s < WINDOW_SIZE \div 2 THEN "low"
                             ELSE @]
           /\ since_flip' = [since_flip EXCEPT ![d] =
                                IF n # heap[r].is_night THEN 0
                                ELSE IF @ < 2 THEN @ + 1 ELSE 2]
    /\ pc' = [pc EXCEPT ![t] = "l76"]
    /\ UNCHANGED <<device_states, state_lock, result, ncalls, serial, expected, log>>
    /\ UNCHANGED <<vmvars, io>>

\* Line 76: state['motion_sum'] -= state['motion_history'][state['motion_index']]
L76(t) ==
    /\ pc[t] = "l76"
    /\ LET r == StateRef(t)
       IN  heap' = [heap EXCEPT ![r].motion_sum = @ - EvictedMotion(heap[r])]
    /\ pc' = [pc EXCEPT ![t] = "l77"]
    /\ UNCHANGED <<device_states, state_lock, frame, result, ncalls,
                   serial, expected, log, crossed>>
    /\ UNCHANGED <<vmvars, io, since_flip>>

\* Line 77: state['motion_history'][state['motion_index']] = motion
L77(t) ==
    /\ pc[t] = "l77"
    /\ LET r == StateRef(t)
       IN  heap' = [heap EXCEPT ![r].motion_history[heap[r].motion_index] =
                                    frame[t].motion]
    /\ pc' = [pc EXCEPT ![t] = "l78"]
    /\ UNCHANGED <<device_states, state_lock, frame, result, ncalls,
                   serial, expected, log, crossed>>
    /\ UNCHANGED <<vmvars, io, since_flip>>

\* Line 78: state['motion_sum'] += motion
L78(t) ==
    /\ pc[t] = "l78"
    /\ LET r == StateRef(t)
       IN  heap' = [heap EXCEPT ![r].motion_sum = @ + frame[t].motion]
    /\ pc' = [pc EXCEPT ![t] = "l79"]
    /\ UNCHANGED <<device_states, state_lock, frame, result, ncalls,
                   serial, expected, log, crossed>>
    /\ UNCHANGED <<vmvars, io, since_flip>>

\* Lines 79-81: advance the ring index; traffic_intensity from motion_sum
\* (held here as line 101 rounds it).
L79(t) ==
    /\ pc[t] = "l79"
    /\ LET r == StateRef(t)
       IN  /\ heap' = [heap EXCEPT ![r].motion_index = (@ + 1) % MOTION_HISTORY_SIZE]
           /\ frame' = [frame EXCEPT ![t].traffic_intensity =
                                        TrafficIntensity(heap[r].motion_sum)]
    /\ pc' = [pc EXCEPT ![t] = "decide"]
    /\ UNCHANGED <<device_states, state_lock, result, ncalls,
                   serial, expected, log, crossed>>
    /\ UNCHANGED <<vmvars, io, since_flip>>

\* Lines 84-95: target brightness, then the anomaly code.
Decide(t) ==
    /\ pc[t] = "decide"
    /\ LET b == TargetBrightness(frame[t].is_night, frame[t].motion)
       IN  frame' = [frame EXCEPT ![t].target_brightness = b,
                                  ![t].anomaly = Anomaly(b, frame[t].power)]
    /\ pc' = [pc EXCEPT ![t] = "return"]
    /\ UNCHANGED <<heap, device_states, state_lock, result, ncalls,
                   serial, expected, log, crossed>>
    /\ UNCHANGED <<vmvars, io, since_flip>>

\* End of the with block (the lock is released), then lines 97-103: back in
\* process_data, line 131.
Return(t) ==
    /\ pc[t] = "return"
    /\ state_lock' = Released(t)
    /\ result' = [result EXCEPT ![t] =
                     [valid |-> TRUE,
                      smooth_ldr |-> frame[t].smooth_ldr,
                      is_night |-> frame[t].is_night,
                      brightness |-> frame[t].target_brightness,
                      traffic_intensity |-> frame[t].traffic_intensity,
                      anomaly |-> frame[t].anomaly]]
    /\ frame' = [frame EXCEPT ![t] = NoFrame]
    /\ pc' = [pc EXCEPT ![t] = "insert"]
    /\ UNCHANGED <<heap, device_states, ncalls, serial, expected, log, crossed>>
    /\ UNCHANGED <<vmvars, io, since_flip>>

\* process_data, lines 134-153: the document is built and insert_one stores it.
InsertOne(t) ==
    /\ pc[t] = "insert"
    /\ io' = [io EXCEPT ![t].inserted = TRUE]
    /\ pc' = [pc EXCEPT ![t] = "emit"]
    /\ UNCHANGED <<heap, device_states, state_lock, frame, result, ncalls,
                   serial, expected, log, crossed, vmvars, since_flip>>

\* process_data, line 149 raising: lines 161-163 return None.
InsertOneRaises(t) ==
    /\ pc[t] = "insert"
    /\ io' = [io EXCEPT ![t] = ExceptReturn(t)]
    /\ pc' = [pc EXCEPT ![t] = "idle"]
    /\ UNCHANGED <<heap, device_states, state_lock, frame, result, ncalls,
                   serial, expected, log, crossed, vmvars, since_flip>>

\* process_data, lines 156-159: socketio.emit('update', doc_json); return doc_json.
Emit(t) ==
    /\ pc[t] = "emit"
    /\ io' = [io EXCEPT ![t].emitted = TRUE, ![t].ret = "doc"]
    /\ pc' = [pc EXCEPT ![t] = "idle"]
    /\ UNCHANGED <<heap, device_states, state_lock, frame, result, ncalls,
                   serial, expected, log, crossed, vmvars, since_flip>>

\* process_data, line 157 raising: lines 161-163 return None.
EmitRaises(t) ==
    /\ pc[t] = "emit"
    /\ io' = [io EXCEPT ![t] = ExceptReturn(t)]
    /\ pc' = [pc EXCEPT ![t] = "idle"]
    /\ UNCHANGED <<heap, device_states, state_lock, frame, result, ncalls,
                   serial, expected, log, crossed, vmvars, since_flip>>

\* One step of a call in progress, the database and the socket answering.
Step(t) ==
    \/ GdsAcquire(t) \/ GdsCheck(t) \/ GdsCreate(t) \/ GdsReturn(t) \/ Acquire(t)
    \/ L59(t) \/ L60(t) \/ L61(t) \/ L62(t) \/ Latch(t)
    \/ L76(t) \/ L77(t) \/ L78(t) \/ L79(t) \/ Decide(t) \/ Return(t)
    \/ InsertOne(t) \/ Emit(t)

\* ------------------------------------------------ vm_subscriber.py: actions
\* on_message, lines 72-122: the whole handler (the paho loop runs one
\* callback at a time).
VMOnMessage ==
    /\ vm_inbox # << >>
    /\ LET msg == Head(vm_inbox)
           d   == msg.device_id
           st  == IF d \in DOMAIN states THEN states[d] ELSE NewDeviceState
           nx  == DeviceStateProcess(st, msg.ldr, msg.motion)
           b   == VmTargetBrightness(nx.is_night, msg.motion)
       IN  /\ states' = [x \in DOMAIN states \cup {d} |->
                            IF x = d THEN nx ELSE states[x]]
           /\ vm_doc' = [valid |-> TRUE, device_id |-> d, motion |-> msg.motion,
                         power |-> msg.power,
                         ldr_smooth |-> TruncDiv(SumSeq(nx.ldr_window),
                                                 Len(nx.ldr_window)),
                         is_night |-> nx.is_night,
                         brightness |-> b,
                         traffic_intensity |-> VmIntensity(nx.motion_history),
                         anomaly |-> VmAnomaly(b, msg.power)]
    /\ vm_inbox' = Tail(vm_inbox)
    /\ UNCHANGED <<heap, device_states, state_lock, pc, frame, result, ncalls,
                   serial, expected, log, crossed, vm_log, feed, io, since_flip>>

\* The broker delivers one published reading to both subscribers of
\* smartcity/streetlight/+/data: backend.py's on_mqtt_message and
\* vm_subscriber.py's on_message.
Publish(d, l, m, p) ==
    /\ vm_inbox = << >>
    /\ Invoke("mqtt", d, l, m, p)
    /\ vm_inbox' = Append(vm_inbox, [device_id |-> d, ldr |-> l, motion |-> m,
                                     power |-> p])
    /\ vm_log' = [vm_log EXCEPT ![d] =
                     [n      |-> @.n + 1,
                      ldr    |-> LastN(Append(@.ldr, l), window_size),
                      motion |-> LastN(Append(@.motion, m), history_size)]]
    /\ feed' = [ldr |-> l, motion |-> m]
    /\ UNCHANGED <<states, vm_doc>>

\* The broker delivers one reading to vm_subscriber.py's on_message only.
VmDeliver(d, l, m, p) ==
    /\ vm_inbox = << >>
    /\ vm_inbox' = Append(vm_inbox, [device_id |-> d, ldr |-> l, motion |-> m,
                                     power |-> p])
    /\ vm_log' = [vm_log EXCEPT ![d] =
                     [n      |-> @.n + 1,
                      ldr    |-> LastN(Append(@.ldr, l), window_size),
                      motion |-> LastN(Append(@.motion, m), history_size)]]
    /\ feed' = [ldr |-> l, motion |-> m]
    /\ UNCHANGED <<heap, device_states, state_lock, pc, frame, result, ncalls,
                   serial, expected, log, crossed, states, vm_doc, io, since_flip>>

\* ------------------------------------------------------- specifications
\* Concurrent engine: both callers, both device ids, any integer inputs.
Next ==
    \/ \E l \in LdrValues, m \in MotionValues, p \in PowerValues :
          ncalls < MaxCalls /\ ManualData(l, m, p)
    \/ \E d \in Devices, l \in LdrValues, m \in MotionValues, p \in PowerValues :
          ncalls < MaxCalls /\ OnMqttMessage(d, l, m, p)
    \/ \E t \in Threads : Step(t)

Spec == Init /\ [][Next]_vars

\* One lamp with a digital light sensor (0 = day, 1 = night), read over
\* MQTT: every sequence of light samples up to MaxLightCalls readings.
NextLight ==
    \/ \E l \in LightLdrValues, p \in LightPowerValues :
          ncalls < MaxLightCalls /\ OnMqttMessage(Lamp, l, 1, p)
    \/ Step("mqtt")

SpecLight == Init /\ [][NextLight]_vars

\* One lamp whose readings reach both subscribers through the broker.  The
\* light and motion samples may change every BlockLen readings, so that MaxBrokerCalls
\* readings (more than either window holds) stay within reach.
NextBroker ==
    \/ \E l \in BrokerLdrValues, m \in BrokerMotionValues, p \in BrokerPowerValues :
          /\ ncalls < MaxBrokerCalls
          /\ ncalls % BlockLen = 0 \/ (l = feed.ldr /\ m = feed.motion)
          /\ Publish(Lamp, l, m, p)
    \/ VMOnMessage
    \/ Step("mqtt")

SpecBroker == Init /\ [][NextBroker]_vars

\* The broker-side subscriber alone, one lamp, every sequence of up to
\* MaxVmCalls readings.
NextVM ==
    \/ \E l \in VmLdrValues, m \in VmMotionValues, p \in VmPowerValues :
          vm_log[Lamp].n < MaxVmCalls /\ VmDeliver(Lamp, l, m, p)
    \/ VMOnMessage

SpecVM == Init /\ [][NextVM]_vars

\* Both threads and both subscribers; insert_one and emit may raise.  The
\* interpreter schedules every runnable thread again and again.
NextFair ==
    \/ \E l \in FairLdrValues, m \in FairMotionValues, p \in FairPowerValues :
          ncalls < MaxFairCalls /\ ManualData(l, m, p)
    \/ \E d \in Devices, l \in FairLdrValues, m \in FairMotionValues,
          p \in FairPowerValues :
          ncalls < MaxFairCalls /\ Publish(d, l, m, p)
    \/ VMOnMessage
    \/ \E t \in Threads : Step(t) \/ InsertOneRaises(t) \/ EmitRaises(t)

SpecFair ==
    /\ Init /\ [][NextFair]_vars
    /\ \A t \in Threads : WF_vars(Step(t))

\* =================================================================== claims
\* Positions inside the processing lock scope (lines 58-95).
InProcessing ==
    {"l59", "l60", "l61", "l62", "latch", "l76", "l77", "l78", "l79",
     "decide", "return"}

\* The samples of the last min(k, 60) readings of a device add up to this.
RecentMotion(d) == SumSeq(log[d].motion)

\* C1: whenever the lock is free, every device's ldr_sum is the sum of the 10
\* entries of ldr_readings and its motion_sum the sum of the 60 entries of
\* motion_history.
C1_SumsMatchWindows ==
    state_lock = NoThread =>
        \A r \in 1..Len(heap) :
            /\ heap[r].ldr_sum = SumTo(heap[r].ldr_readings, 10)
            /\ heap[r].motion_sum = SumTo(heap[r].motion_history, 60)

\* Both windows have wrapped and hold mixed samples, so non-zero slots were evicted.
C1_Witness ==
    /\ state_lock = NoThread
    /\ pc["mqtt"] = "idle"
    /\ log[Lamp].n > 60
    /\ Lamp \in DOMAIN device_states
    /\ LET st == heap[device_states[Lamp]]
       IN  /\ st.ldr_sum > 0 /\ st.ldr_sum < 9000
           /\ st.motion_sum > 0 /\ st.motion_sum < 60
           /\ st.motion_history[0] # st.motion_history[59]

\* C2: calls for the same device never interleave their stages: at most one
\* thread is inside the processing scope, every returned result is the result
\* of the call in the order in which the calls took the lock, and whenever
\* the lock is free every device's state is the state that serial order gives.
C2_Serialized ==
    /\ Cardinality({t \in Threads : pc[t] \in InProcessing}) <= 1
    /\ \A t \in Threads : result[t].valid => result[t] = expected[t]
    /\ state_lock = NoThread =>
          \A d \in DOMAIN device_states : heap[device_states[d]] = serial[d]

\* The HTTP call has gone through its four stages while the MQTT call for the
\* same device, with another light sample, waits for the lock.
C2_Witness ==
    /\ pc["http"] = "return"
    /\ pc["mqtt"] = "lock"
    /\ frame["mqtt"].device_id = frame["http"].device_id
    /\ frame["mqtt"].raw_ldr # frame["http"].raw_ldr

\* C3: the latch step of a call, on the post-update light sum s: s > 5 sets
\* is_night, s < 5 clears it, s = 5 leaves it as it was.
C3_LatchRule ==
    [][\A t \in Threads :
          (pc[t] = "latch" /\ pc'[t] = "l76") =>
              LET r == frame[t].state
                  s == frame[t].smooth_ldr
              IN  /\ s = SumTo(heap[r].ldr_readings, 10)
                  /\ s > 5 => heap'[r].is_night
                  /\ s < 5 => ~heap'[r].is_night
                  /\ s = 5 => heap'[r].is_night = heap[r].is_night
                  /\ frame'[t].is_night = heap'[r].is_night]_vars

\* The latch step has run on s = 5 after the window wrapped, and night is kept.
C3_Witness ==
    \E t \in Threads :
        /\ pc[t] = "l76"
        /\ frame[t].smooth_ldr = 5
        /\ log[frame[t].device_id].n > 10
        /\ heap[frame[t].state].is_night

\* C4: a result whose light sum is in the dead band (5) reports night when the
\* sum was last above 5, and day when it was last below 5.
C4_Hysteresis ==
    \A t \in Threads :
        (pc[t] = "return" /\ frame[t].smooth_ldr = 5) =>
            /\ crossed[frame[t].device_id] = "high" => frame[t].is_night
            /\ crossed[frame[t].device_id] = "low" => ~frame[t].is_night

\* A dead-band result after the sum had been above 5.
C4_Witness ==
    \E t \in Threads :
        /\ pc[t] = "return"
        /\ frame[t].smooth_ldr = 5
        /\ crossed[frame[t].device_id] = "high"
        /\ frame[t].is_night

\* C5: the traffic intensity of every result is within 0..100 %, and is 100 %
\* after 60 consecutive readings with motion = 1.
C5_TrafficBounds ==
    \A t \in Threads :
        pc[t] = "return" =>
            /\ frame[t].traffic_intensity >= 0
            /\ frame[t].traffic_intensity <= 1000
            /\ log[frame[t].device_id].motion = [i \in 1..60 |-> 1]
                  => frame[t].traffic_intensity = 1000

\* C6: the brightness of a result is 0 by day, 100 by night with motion = 1
\* and 30 by night with motion = 0, on the is_night the call left in the
\* state: in backend.py and in vm_subscriber.py.
C6_Brightness ==
    /\ \A t \in Threads :
          pc[t] = "return" =>
              LET f == frame[t]
                  night == heap[f.state].is_night
              IN  /\ f.is_night = night
                  /\ f.target_brightness \in {0, 30, 100}
                  /\ ~night => f.target_brightness = 0
                  /\ (night /\ f.motion = 1) => f.target_brightness = 100
                  /\ (night /\ f.motion = 0) => f.target_brightness = 30
    /\ vm_doc.valid =>
          LET night == states[vm_doc.device_id].is_night
          IN  /\ vm_doc.is_night = night
              /\ vm_doc.brightness \in {0, 30, 100}
              /\ ~night => vm_doc.brightness = 0
              /\ (night /\ vm_doc.motion = 1) => vm_doc.brightness = 100
              /\ (night /\ vm_doc.motion = 0) => vm_doc.brightness = 30

\* Night without motion in both programs, while the motion window is not empty.
C6_Witness ==
    /\ pc["mqtt"] = "return"
    /\ frame["mqtt"].is_night
    /\ frame["mqtt"].motion = 0
    /\ frame["mqtt"].target_brightness = 30
    /\ frame["mqtt"].traffic_intensity > 0
    /\ vm_doc.valid /\ vm_doc.is_night /\ vm_doc.brightness = 30

\* C7: the anomaly code of a result is 1 exactly when brightness > 10 and
\* power < 0.1, 2 exactly when brightness = 0 and power > 1.0, else 0.
C7_AnomalyCode ==
    \A t \in Threads :
        pc[t] = "return" =>
            LET b == frame[t].target_brightness
                p == frame[t].power
                a == frame[t].anomaly
            IN  /\ a \in {0, 1, 2}
                /\ a = 1 <=> (b > 10 /\ p < 1)
                /\ a = 2 <=> (b = 0 /\ p > 10)

\* Code 1 at the dimmed level.
C7_Witness ==
    \E t \in Threads :
        /\ pc[t] = "return"
        /\ frame[t].target_brightness = 30
        /\ frame[t].anomaly = 1

\* The device a step of thread t belongs to.
DeviceOfStep(t) == IF pc[t] = "idle" THEN frame'[t].device_id ELSE frame[t].device_id

\* C8: a step of a call for one device changes the state of no other device,
\* and a device's state is at all times what its own readings alone give.
C8_Isolation ==
    /\ [][\A t \in Threads :
            pc'[t] # pc[t] =>
                \A d \in DOMAIN device_states :
                    d # DeviceOfStep(t) =>
                        /\ d \in DOMAIN device_states'
                        /\ device_states'[d] = device_states[d]
                        /\ heap'[device_states[d]] = heap[device_states[d]]]_vars
    /\ [](\A d \in DOMAIN device_states :
            (\A t \in Threads : ~(pc[t] \in InProcessing /\ frame[t].device_id = d))
                => heap[device_states[d]] = serial[d])

\* A call for lamp1 is in its light-window update while http_manual holds samples.
C8_Witness ==
    /\ pc["mqtt"] = "l61"
    /\ frame["mqtt"].device_id = "lamp1"
    /\ log["http_manual"].n = 1
    /\ "http_manual" \in DOMAIN device_states
    /\ heap[device_states["http_manual"]].ldr_sum # 0
    /\ heap[device_states["http_manual"]].motion_sum # 0

\* C9 as stated: in both programs the traffic intensity is the motion count of
\* the last min(k, 60) readings over the full capacity 60.
C9_FullCapacityBoth ==
    /\ \A t \in Threads :
          pc[t] = "return" =>
              frame[t].traffic_intensity =
                  RoundHalfEven(1000 * RecentMotion(frame[t].device_id), 60)
    /\ (vm_doc.valid /\ vm_inbox = << >>) =>
          vm_doc.traffic_intensity =
              RoundHalfEven(1000 * SumSeq(vm_log[vm_doc.device_id].motion), 60)

\* C9 amended: backend.py divides by the capacity 60; vm_subscriber.py divides
\* by the number of samples it holds, min(k, 60).
C9_CapacityOrFill ==
    /\ \A t \in Threads :
          pc[t] = "return" =>
              frame[t].traffic_intensity =
                  RoundHalfEven(1000 * RecentMotion(frame[t].device_id), 60)
    /\ (vm_doc.valid /\ vm_inbox = << >>) =>
          LET k == vm_log[vm_doc.device_id].n
          IN  vm_doc.traffic_intensity =
                  RoundHalfEven(1000 * SumSeq(vm_log[vm_doc.device_id].motion),
                                IF k < 60 THEN k ELSE 60)

\* Past 60 readings, with a mixed window: the two programs agree.
C9_Witness ==
    /\ pc["mqtt"] = "return"
    /\ log[Lamp].n > 60
    /\ frame["mqtt"].traffic_intensity > 0
    /\ frame["mqtt"].traffic_intensity < 1000
    /\ vm_doc.valid /\ vm_inbox = << >>
    /\ vm_doc.traffic_intensity = frame["mqtt"].traffic_intensity

\* C10: no out-of-range value is ever in a window, and no call with an
\* out-of-range input runs to a result.
C10_RejectsOutOfRange ==
    /\ \A r \in 1..Len(heap) :
          /\ \A i \in 0..9 : heap[r].ldr_readings[i] >= 0
          /\ \A i \in 0..59 : heap[r].motion_history[i] \in {0, 1}
    /\ \A t \in Threads :
          pc[t] = "return" =>
              /\ frame[t].raw_ldr >= 0
              /\ frame[t].motion \in {0, 1}
              /\ frame[t].power >= 0

\* C11: ten readings raw_light = 1, motion = 1, power = 4.5 W of a new device
\* end with smoothed light 10, night, brightness 100, anomaly 0 and a traffic
\* intensity of 16.7 %.
C11_EndToEnd ==
    ( /\ pc["mqtt"] = "return"
      /\ log[Lamp].n = 10
      /\ log[Lamp].ldr = [i \in 1..10 |-> 1]
      /\ log[Lamp].motion = [i \in 1..10 |-> 1]
      /\ frame["mqtt"].power = 45 )
    => /\ frame["mqtt"].smooth_ldr = 10
       /\ frame["mqtt"].is_night
       /\ frame["mqtt"].target_brightness = 100
       /\ frame["mqtt"].anomaly = 0
       /\ frame["mqtt"].traffic_intensity = 167

\* The tenth reading of ten ones is about to return.
C11_Witness ==
    /\ pc["mqtt"] = "return"
    /\ log[Lamp].n = 10
    /\ log[Lamp].ldr = [i \in 1..10 |-> 1]
    /\ frame["mqtt"].power = 45
    /\ frame["mqtt"].traffic_intensity = 167

\* C15: the rings evict first-in first-out: the light sum a call returns is
\* the sum of the device's last min(k, 10) light samples, and its motion sum
\* the sum of the last min(k, 60) motion samples, k the number of calls.
C15_FifoEviction ==
    \A t \in Threads :
        pc[t] = "return" =>
            LET lg == log[frame[t].device_id]
            IN  /\ Len(lg.ldr) = IF lg.n < 10 THEN lg.n ELSE 10
                /\ Len(lg.motion) = IF lg.n < 60 THEN lg.n ELSE 60
                /\ frame[t].smooth_ldr = SumSeq(lg.ldr)
                /\ heap[frame[t].state].motion_sum = SumSeq(lg.motion)

\* A result after both rings wrapped, the windows holding mixed samples.
C15_Witness ==
    /\ pc["mqtt"] = "return"
    /\ log[Lamp].n > 60
    /\ log[Lamp].ldr[1] # log[Lamp].ldr[10]
    /\ log[Lamp].motion[1] # log[Lamp].motion[60]
    /\ frame["mqtt"].smooth_ldr = SumSeq(log[Lamp].ldr)

\* C16: with light samples in {0, 1}, the call that follows a change of
\* is_night never changes it again.
C16_NoConsecutiveFlips ==
    [][\A t \in Threads :
          (pc[t] = "latch" /\ pc'[t] = "l76" /\ since_flip[frame[t].device_id] = 0) =>
              heap'[frame[t].state].is_night = heap[frame[t].state].is_night]_vars

\* The call after a change to night ran in the dead band and kept night.
C16_Witness ==
    /\ pc["mqtt"] = "l76"
    /\ since_flip[Lamp] = 1
    /\ frame["mqtt"].smooth_ldr = 5
    /\ frame["mqtt"].is_night
    /\ log[Lamp].n > 10

\* C17: for a new device with light samples in {0, 1} the light sum after the
\* k-th call is at most k (k <= 10), and the first five results report day
\* and brightness 0.
C17_WarmUp ==
    \A t \in Threads :
        pc[t] = "return" =>
            LET k == log[frame[t].device_id].n
            IN  /\ k <= 10 => frame[t].smooth_ldr <= k
                /\ k <= 5 => ~frame[t].is_night /\ frame[t].target_brightness = 0

\* Night reported by the sixth call.
C17_Witness ==
    /\ pc["mqtt"] = "return"
    /\ log[Lamp].n = 6
    /\ frame["mqtt"].smooth_ldr = 6
    /\ frame["mqtt"].is_night
    /\ frame["mqtt"].target_brightness = 100

\* C18: in backend.py the two anomaly conditions exclude each other: code 1
\* comes with night and brightness 30 or 100, code 2 with day and brightness
\* 0, and checking in the other order gives the same code.
C18_AnomalyExclusive ==
    \A t \in Threads :
        pc[t] = "return" =>
            LET b  == frame[t].target_brightness
                p  == frame[t].power
                a  == frame[t].anomaly
                c1 == b > 10 /\ p < 1
                c2 == b = 0 /\ p > 10
            IN  /\ ~(c1 /\ c2)
                /\ a = 1 => frame[t].is_night /\ b \in {30, 100}
                /\ a = 2 => ~frame[t].is_night /\ b = 0
                /\ a = (IF c1 THEN 1 ELSE IF c2 THEN 2 ELSE 0)

\* Code 2 by day, after a night in which code 1 was possible.
C18_Witness ==
    /\ pc["mqtt"] = "return"
    /\ frame["mqtt"].anomaly = 2
    /\ ~frame["mqtt"].is_night
    /\ crossed[Lamp] = "low"
    /\ log[Lamp].n > 20

\* C13: vm_subscriber.py's DeviceState.process sets is_night when the mean of
\* the light window is above 800, clears it when the mean is below 600, and
\* keeps the prior value for a mean within 600..800.
C13_VmLatchRule ==
    [][(vm_inbox # << >> /\ vm_inbox' = Tail(vm_inbox)) =>
          LET d     == Head(vm_inbox).device_id
              prior == IF d \in DOMAIN states THEN states[d].is_night ELSE FALSE
              w     == vm_log[d].ldr
              sum   == SumSeq(w)
              len   == Len(w)
          IN  /\ states'[d].ldr_window = w
              /\ sum > 800 * len => states'[d].is_night
              /\ sum < 600 * len => ~states'[d].is_night
              /\ (600 * len <= sum /\ sum <= 800 * len) =>
                     states'[d].is_night = prior]_vars

\* Night kept at a mean of exactly 800 (900, 900, 600).
C13_Witness ==
    /\ vm_doc.valid
    /\ vm_inbox = << >>
    /\ Len(states[Lamp].ldr_window) = 3
    /\ SumSeq(states[Lamp].ldr_window) = 800 * 3
    /\ states[Lamp].is_night
    /\ vm_doc.is_night

\* C19: the subscriber's anomaly flag is 1 exactly when power differs from
\* brightness / 100 * 5.0 W by more than 1.0 W: at brightness 0 exactly when
\* power > 1.0, at 30 exactly when power < 0.5 or > 2.5, at 100 exactly when
\* power < 4.0 or > 6.0; never 2.
C19_VmAnomalyBands ==
    vm_doc.valid =>
        LET b == vm_doc.brightness
            p == vm_doc.power
            a == vm_doc.anomaly
            e == (b * 50) \div 100
        IN  /\ a \in {0, 1}
            /\ a = 1 <=> (p - e > 10 \/ e - p > 10)
            /\ b = 0 => (a = 1 <=> p > 10)
            /\ b = 30 => (a = 1 <=> (p < 5 \/ p > 25))
            /\ b = 100 => (a = 1 <=> (p < 40 \/ p > 60))

\* C12: each device id gets one state object, created by the first reading
\* with zero slots, zero sums, zero indices and is_night false; concurrent first
\* readings of one id all work on that object; an object is never replaced,
\* removed or changed other than by a call processing it.
C12_CreatedOnce ==
    /\ [](/\ Len(heap) = Cardinality(DOMAIN device_states)
          /\ \A d \in DOMAIN device_states :
                /\ device_states[d] \in 1..Len(heap)
                /\ \A d2 \in DOMAIN device_states :
                      device_states[d2] = device_states[d] => d2 = d
                /\ log[d].n = 0 =>
                      LET st == heap[device_states[d]]
                      IN  /\ \A i \in 0..9 : st.ldr_readings[i] = 0
                          /\ \A i \in 0..59 : st.motion_history[i] = 0
                          /\ st.ldr_sum = 0 /\ st.motion_sum = 0
                          /\ st.ldr_index = 0 /\ st.motion_index = 0
                          /\ ~st.is_night
          /\ \A t \in Threads :
                pc[t] \in {"lock"} \cup InProcessing =>
                    /\ frame[t].device_id \in DOMAIN device_states
                    /\ frame[t].state = device_states[frame[t].device_id]
          /\ \A d \in DOMAIN states : vm_log[d].n >= 1)
    /\ [][/\ \A d \in DOMAIN device_states :
                /\ d \in DOMAIN device_states'
                /\ device_states'[d] = device_states[d]
          /\ Len(heap') >= Len(heap)
          /\ \A r \in 1..Len(heap) :
                heap'[r] # heap[r] =>
                    \E t \in Threads : pc[t] \in InProcessing /\ frame[t].state = r
          /\ DOMAIN states \subseteq DOMAIN states'
          /\ \A d \in DOMAIN states' \ DOMAIN states :
                /\ vm_log[d].n = 1
                /\ Len(states'[d].ldr_window) = 1
                /\ Len(states'[d].motion_history) = 1]_vars

\* Two first readings of one new id in flight at once: one thread has created
\* the state and waits for the processing lock, the other still is inside
\* get_device_state.
C12_Witness ==
    /\ pc["mqtt"] = "lock"
    /\ pc["http"] = "gds_check"
    /\ frame["http"].device_id = frame["mqtt"].device_id
    /\ log[frame["http"].device_id].n = 0
    /\ Len(heap) = 1

\* C14: under fair scheduling every call of process_sensor_data returns a
\* result; the lock is free whenever no thread is inside the engine, and a
\* call in progress can always take a step (no deadlock).
C14_Terminates ==
    /\ \A t \in Threads : (pc[t] = "gds_lock") ~> (pc[t] = "insert" /\ result[t].valid)
    /\ []((\A t \in Threads : pc[t] \in {"idle", "insert", "emit"}) =>
              state_lock = NoThread)
    /\ []((\E t \in Threads : pc[t] # "idle") => ENABLED (\E t \in Threads : Step(t)))

\* Both threads inside the engine for the same device: one holds the lock,
\* the other is blocked on it.
C14_Witness ==
    /\ pc["http"] = "lock"
    /\ pc["mqtt"] \in InProcessing
    /\ state_lock = "mqtt"
    /\ frame["http"].device_id = frame["mqtt"].device_id
    /\ ~ENABLED Step("http")

\* C20: process_data runs the engine once and before insert_one; when
\* insert_one or emit raises it returns None without emitting, and the device
\* state stays as the call left it: every call, failed or not, is counted once.
C20_NoRollback ==
    /\ \A t \in Threads :
          /\ pc[t] \in {"insert", "emit"} => result[t].valid /\ ~io[t].emitted
          /\ (io[t].inserted \/ io[t].failed) =>
                 result[t].valid /\ result[t] = expected[t]
          /\ io[t].failed =>
                 pc[t] = "idle" /\ io[t].ret = "None" /\ ~io[t].emitted
          /\ io[t].ret = "doc" => io[t].inserted /\ io[t].emitted /\ ~io[t].failed
    /\ state_lock = NoThread =>
          \A d \in DOMAIN device_states : heap[device_states[d]] = serial[d]
    /\ (\A t \in Threads : pc[t] \in {"idle", "insert", "emit"}) =>
          log["http_manual"].n + log["lamp1"].n = ncalls

\* The same reading submitted twice, both submissions failed (one in
\* insert_one, one in emit), and the window holds the sample twice.
C20_Witness ==
    /\ pc["http"] = "idle" /\ pc["mqtt"] = "idle"
    /\ io["http"].failed /\ ~io["http"].inserted
    /\ io["mqtt"].failed /\ io["mqtt"].inserted
    /\ log["http_manual"].ldr = <<6, 6>>
    /\ heap[device_states["http_manual"]].ldr_sum = 12
    /\ heap[device_states["http_manual"]].motion_sum = 2

====
